---- MODULE Spec2Model ----
(***************************************************************************)
(* Model of the stock pipeline's predict service                          *)
(* (src/services/predict/handler.py) and of the RSI computation it shares  *)
(* with the training script (src/train_shared_model.py), and of the ingest  *)
(* service's get_json and lambda_handler (src/services/ingest/handler.py). *)
(*                                                                         *)
(* Floating-point values are modelled as IEEE-754 values with exact        *)
(* rational magnitudes: a finite value is sign * n / d (the sign is kept   *)
(* on zero), and the special values +inf, -inf and NaN follow the IEEE     *)
(* rules for division by zero and for inf/NaN propagation.  Rounding is    *)
(* not modelled, except that a square root (the rolling standard           *)
(* deviation) is rounded down to a multiple of 1 / SqrtScale.              *)
(***************************************************************************)
EXTENDS Integers, Sequences, FiniteSets, TLC

(***************************************************************************)
(* Numbers                                                                 *)
(***************************************************************************)
RECURSIVE Gcd(_, _)
Gcd(a, b) == IF b = 0 THEN a ELSE Gcd(b, a % b)

\* F(v), with v evaluated once however often F uses it: a local variable
Once(v, F(_)) == CHOOSE r \in {F(x) : x \in {v}} : TRUE

NaN == [k |-> "nan", s |-> 1, n |-> 0, d |-> 1]
Inf(sg) == [k |-> "inf", s |-> sg, n |-> 0, d |-> 1]

\* sign * num / den, reduced; num >= 0, den > 0
Fin(sg, num, den) ==
    LET g == Gcd(num, den)
    IN  [k |-> "fin", s |-> sg, n |-> num \div g, d |-> den \div g]

\* a Python int or an integral float
Num(x) == IF x < 0 THEN Fin(-1, -x, 1) ELSE Fin(1, x, 1)
Zero == Num(0)

IsNaN(x) == x.k = "nan"
IsInf(x) == x.k = "inf"
IsFinite(x) == x.k = "fin"
IsZero(x) == x.k = "fin" /\ x.n = 0

\* unary minus: flips the sign bit, also of a zero
Neg(x) == IF x.k = "nan" THEN x ELSE [x EXCEPT !.s = -x.s]

\* signed numerator of a finite value over the denominator den (a multiple of x.d)
Scaled(x, den) == x.s * x.n * (den \div x.d)

Lcm(a, b) == (a \div Gcd(a, b)) * b

Add(x, y) ==
    IF x.k = "nan" \/ y.k = "nan" THEN NaN
    ELSE IF x.k = "inf" /\ y.k = "inf" THEN (IF x.s = y.s THEN x ELSE NaN)
    ELSE IF x.k = "inf" THEN x
    ELSE IF y.k = "inf" THEN y
    ELSE LET den == Lcm(x.d, y.d)
             num == Scaled(x, den) + Scaled(y, den)
         IN  IF num = 0
             THEN (IF x.s = -1 /\ y.s = -1 THEN Fin(-1, 0, 1) ELSE Fin(1, 0, 1))
             ELSE IF num < 0 THEN Fin(-1, -num, den) ELSE Fin(1, num, den)

Sub(x, y) == Add(x, Neg(y))

Mul(x, y) ==
    IF x.k = "nan" \/ y.k = "nan" THEN NaN
    ELSE IF (x.k = "inf" /\ IsZero(y)) \/ (y.k = "inf" /\ IsZero(x)) THEN NaN
    ELSE IF x.k = "inf" \/ y.k = "inf" THEN Inf(x.s * y.s)
    ELSE LET g1 == Gcd(x.n, y.d)
             g2 == Gcd(y.n, x.d)
         IN  Fin(x.s * y.s, (x.n \div g1) * (y.n \div g2), (x.d \div g2) * (y.d \div g1))

\* a division that gives NaN for every zero divisor
DivNaNOnZero(x, y) ==
    IF x.k = "nan" \/ y.k = "nan" THEN NaN
    ELSE IF x.k = "inf" /\ y.k = "inf" THEN NaN
    ELSE IF x.k = "inf" THEN Inf(x.s * y.s)
    ELSE IF y.k = "inf" THEN Fin(x.s * y.s, 0, 1)
    ELSE IF y.n = 0 THEN NaN
    ELSE LET g1 == Gcd(x.n, y.n)
             g2 == Gcd(x.d, y.d)
         IN  Fin(x.s * y.s, (x.n \div g1) * (y.d \div g2), (x.d \div g2) * (y.n \div g1))

\* IEEE division as numpy performs it: x/0 is +-inf, 0/0 and inf/inf are NaN
Div(x, y) ==
    IF x.k = "nan" \/ y.k = "nan" THEN NaN
    ELSE IF x.k = "inf" /\ y.k = "inf" THEN NaN
    ELSE IF x.k = "inf" THEN Inf(x.s * y.s)
    ELSE IF y.k = "inf" THEN Fin(x.s * y.s, 0, 1)
    ELSE IF y.n = 0 THEN (IF x.n = 0 THEN NaN ELSE Inf(x.s * y.s))
    ELSE LET g1 == Gcd(x.n, y.n)
             g2 == Gcd(x.d, y.d)
         IN  Fin(x.s * y.s, (x.n \div g1) * (y.d \div g2), (x.d \div g2) * (y.n \div g1))

\* the sign of a / b - c / d for a, c >= 0 and b, d > 0, by Euclid's algorithm
\* on the two fractions (no product is formed)
RECURSIVE CmpFrac(_, _, _, _)
CmpFrac(a, b, c, d) ==
    LET q1 == a \div b
        q2 == c \div d
        r1 == a % b
        r2 == c % d
    IN  IF q1 < q2 THEN -1
        ELSE IF q1 > q2 THEN 1
        ELSE IF r1 = 0 /\ r2 = 0 THEN 0
        ELSE IF r1 = 0 THEN -1
        ELSE IF r2 = 0 THEN 1
        ELSE CmpFrac(d, r2, b, r1)

\* comparisons: any comparison with NaN is false; -0 = +0
Lt(x, y) ==
    IF x.k = "nan" \/ y.k = "nan" THEN FALSE
    ELSE IF x.k = "inf" THEN x.s = -1 /\ ~(y.k = "inf" /\ y.s = -1)
    ELSE IF y.k = "inf" THEN y.s = 1
    ELSE IF x.n = 0 THEN y.n > 0 /\ y.s = 1
    ELSE IF y.n = 0 THEN x.s = -1
    ELSE IF x.s # y.s THEN x.s = -1
    ELSE IF x.s = 1 THEN CmpFrac(x.n, x.d, y.n, y.d) < 0
    ELSE CmpFrac(x.n, x.d, y.n, y.d) > 0

Gt(x, y) == Lt(y, x)

Eq(x, y) ==
    IF x.k = "nan" \/ y.k = "nan" THEN FALSE
    ELSE IF x.k = "inf" \/ y.k = "inf" THEN x.k = y.k /\ x.s = y.s
    ELSE x.n = y.n /\ x.d = y.d /\ (x.s = y.s \/ x.n = 0)

Ge(x, y) == Gt(x, y) \/ Eq(x, y)

SqrtScale == 100

\* the largest r in lo..hi with (r / SqrtScale)^2 <= num / den
RECURSIVE RootIn(_, _, _, _)
RootIn(num, den, lo, hi) ==
    IF lo = hi THEN lo
    ELSE LET mid == (lo + hi + 1) \div 2
         IN  IF CmpFrac(mid * mid, SqrtScale * SqrtScale, num, den) <= 0
             THEN RootIn(num, den, mid, hi)
             ELSE RootIn(num, den, lo, mid - 1)

\* sqrt of a value >= 0, rounded down to a multiple of 1 / SqrtScale
Sqrt(x) ==
    IF x.k = "nan" THEN NaN
    ELSE IF x.k = "inf" THEN (IF x.s = 1 THEN x ELSE NaN)
    ELSE IF x.n = 0 THEN x
    ELSE IF x.s = -1 THEN NaN
    ELSE Fin(1, RootIn(x.n, x.d, 0, 46340), SqrtScale)

(***************************************************************************)
(* Series (pandas.Series of floats): sequences of numbers                  *)
(***************************************************************************)
\* the sum of s[lo..hi]; the magnitudes being exact, the order of the additions
\* does not matter, and the range is halved to keep the evaluation shallow
RECURSIVE SumRange(_, _, _)
SumRange(s, lo, hi) ==
    IF hi < lo THEN Zero
    ELSE IF lo = hi THEN s[lo]
    ELSE LET mid == (lo + hi) \div 2
         IN  Add(SumRange(s, lo, mid), SumRange(s, mid + 1, hi))

\* float equality, so a window mixing -0.0 and +0.0 counts as one value
AllSame(s, lo, hi) == \A j \in lo..hi : Eq(s[j], s[lo])

\* Every series operator takes the length n of the series it works on.

\* Series.shift(k): the value k rows earlier, NaN on the first k rows
Shift(n, s, k) == [i \in 1..n |-> IF i <= k THEN NaN ELSE s[i - k]]

\* Series.pct_change(k) = s / s.shift(k) - 1
PctChange(n, s, k) == [i \in 1..n |-> Sub(Div(s[i], Shift(n, s, k)[i]), Num(1))]

\* Series.diff() = s - s.shift(1)
Diff(n, s) == [i \in 1..n |-> Sub(s[i], Shift(n, s, 1)[i])]

\* Series.rolling(w).mean(): min_periods = w, so a window that is short or holds
\* a NaN (rolling turns inf into NaN) is NaN.  sameValue is the pandas build's
\* choice for a window of w identical values: return that value itself (TRUE,
\* pandas >= 1.5) or the quotient sum / w of a sum that starts at 0.0 (FALSE);
\* they differ on a window of -0.0
RollingMean(n, s, w, sameValue) ==
    [i \in 1..n |->
        IF i < w THEN NaN
        ELSE IF \E j \in (i - w + 1)..i : ~IsFinite(s[j]) THEN NaN
        ELSE IF sameValue /\ AllSame(s, i - w + 1, i) THEN s[i]
        ELSE Div(Add(Zero, SumRange(s, i - w + 1, i)), Num(w))]

\* Series.rolling(w).std(): the sample standard deviation (ddof = 1) of a full
\* window of finite values, NaN otherwise
RollingStd(n, s, w) ==
    [i \in 1..n |->
        IF i < w THEN NaN
        ELSE IF \E j \in (i - w + 1)..i : ~IsFinite(s[j]) THEN NaN
        ELSE LET mu == Div(SumRange(s, i - w + 1, i), Num(w))
                 sq == [j \in (i - w + 1)..i |-> Mul(Sub(s[j], mu), Sub(s[j], mu))]
             IN  Sqrt(Div(SumRange(sq, i - w + 1, i), Num(w - 1)))]

SeriesDiv(n, a, b) == [i \in 1..n |-> Div(a[i], b[i])]
SeriesNeg(n, a) == [i \in 1..n |-> Neg(a[i])]

\* delta.where(delta > 0, 0): keeps the positive entries, 0 elsewhere (also on NaN)
WherePositive(n, delta) == [i \in 1..n |-> IF Gt(delta[i], Zero) THEN delta[i] ELSE Zero]
\* delta.where(delta < 0, 0)
WhereNegative(n, delta) == [i \in 1..n |-> IF Lt(delta[i], Zero) THEN delta[i] ELSE Zero]

\* 100 - (100 / (1 + rs))
RsiFromRs(n, rs) == [i \in 1..n |-> Sub(Num(100), Div(Num(100), Add(Num(1), rs[i])))]

\* predict handler: loss = -(delta.where(delta < 0, 0).rolling(14).mean())
Rsi14(n, close, sameValue) ==
    LET delta == Diff(n, close)
        gain == RollingMean(n, WherePositive(n, delta), 14, sameValue)
        loss == SeriesNeg(n, RollingMean(n, WhereNegative(n, delta), 14, sameValue))
    IN  RsiFromRs(n, SeriesDiv(n, gain, loss))

\* training script: loss = (-delta.where(delta < 0, 0)).rolling(14).mean()
TrainRsi14(n, close, sameValue) ==
    LET delta == Diff(n, close)
        gain == RollingMean(n, WherePositive(n, delta), 14, sameValue)
        loss == RollingMean(n, SeriesNeg(n, WhereNegative(n, delta)), 14, sameValue)
    IN  RsiFromRs(n, SeriesDiv(n, gain, loss))

(***************************************************************************)
(* Tables (pandas.DataFrame)                                               *)
(*   a history df : [ticker, rows], rows a sequence of price bars          *)
(*   a feature table : [n, cols, ..], Column(table, c) the series of c     *)
(* A column name is [pre, id]: "ticker_" + t is [pre |-> "ticker_", id |-> *)
(* t], every other name has an empty prefix.                               *)
(***************************************************************************)
WATCHLIST == <<"NVDA", "AAPL", "MSFT", "GOOGL", "AMZN", "TSLA">>

Col(name) == [pre |-> "", id |-> name]
TickerCol(t) == [pre |-> "ticker_", id |-> t]

\* c.startswith("ticker_")
StartsWithTicker(c) == c.pre = "ticker_"

RawFields == {"open", "high", "low", "close", "volume", "vwap"}

\* df.sort_values("date")
SortByDate(rows) == SortSeq(rows, LAMBDA a, b : a.date < b.date)

\* Timestamp.dayofweek of a proleptic ordinal day: Monday = 0 .. Sunday = 6
DayOfWeek(ordinal) == (ordinal + 6) % 7

Field(n, rows, f) == [i \in 1..n |-> rows[i][f]]

FeatureNames ==
    {"return_1d", "return_5d", "return_10d", "ma_5", "ma_20", "price_to_ma5",
     "price_to_ma20", "volatility_5d", "volatility_10d", "volume_ma_20",
     "volume_ratio", "rsi_14", "daily_range", "close_to_vwap", "day_of_week"}

\* add_features_lightweight: the table with the columns it adds (the history
\* always has a vwap column, so close_to_vwap is always added).  A table keeps
\* its sorted bars; Column gives the values of each of its columns.
add_features_lightweight(df, sameValue) ==
    [ticker |-> df.ticker,
     n |-> Len(df.rows),
     rows |-> SortByDate(df.rows),
     sameValue |-> sameValue,
     cols |-> {Col(f) : f \in RawFields \cup FeatureNames \cup {"date", "ticker"}},
     given |-> <<>>]

\* add_ticker_onehots: one 0/1 column per watchlist ticker
add_ticker_onehots(tab) ==
    [tab EXCEPT !.cols = @ \cup {TickerCol(WATCHLIST[j]) : j \in 1..Len(WATCHLIST)}]

\* df_feat[c] for a column c of the table: a column handed over as data
\* (given), a one-hot column, or a column add_features_lightweight computes
Column(tab, c) ==
    LET n == tab.n
        rows == tab.rows
        close == Field(n, rows, "close")
        volume == Field(n, rows, "volume")
        ma_5 == RollingMean(n, close, 5, tab.sameValue)
        ma_20 == RollingMean(n, close, 20, tab.sameValue)
        volume_ma_20 == RollingMean(n, volume, 20, tab.sameValue)
    IN  CASE c \in DOMAIN tab.given -> tab.given[c]
          [] StartsWithTicker(c) ->
                [i \in 1..n |-> IF tab.ticker = c.id THEN Num(1) ELSE Num(0)]
          [] c.id \in RawFields -> Field(n, rows, c.id)
          [] c.id = "date" -> Field(n, rows, "date")
          [] c.id = "ticker" -> [i \in 1..n |-> tab.ticker]
          [] c.id = "return_1d" -> PctChange(n, close, 1)
          [] c.id = "return_5d" -> PctChange(n, close, 5)
          [] c.id = "return_10d" -> PctChange(n, close, 10)
          [] c.id = "ma_5" -> ma_5
          [] c.id = "ma_20" -> ma_20
          [] c.id = "price_to_ma5" -> SeriesDiv(n, close, ma_5)
          [] c.id = "price_to_ma20" -> SeriesDiv(n, close, ma_20)
          [] c.id = "volatility_5d" -> RollingStd(n, PctChange(n, close, 1), 5)
          [] c.id = "volatility_10d" -> RollingStd(n, PctChange(n, close, 1), 10)
          [] c.id = "volume_ma_20" -> volume_ma_20
          [] c.id = "volume_ratio" -> SeriesDiv(n, volume, volume_ma_20)
          [] c.id = "rsi_14" -> Rsi14(n, close, tab.sameValue)
          [] c.id = "daily_range" ->
                [i \in 1..n |-> Div(Sub(rows[i].high, rows[i].low), rows[i].open)]
          [] c.id = "close_to_vwap" -> SeriesDiv(n, close, Field(n, rows, "vwap"))
          [] c.id = "day_of_week" -> [i \in 1..n |-> Num(DayOfWeek(rows[i].date))]

\* df_feat.iloc[:1] in place of df_feat.iloc[-1:]
LatestRowFirst(df_feat, feature_cols) ==
    [cols |-> feature_cols,
     vals |-> [i \in 1..Len(feature_cols) |->
                 IF feature_cols[i] \in df_feat.cols
                 THEN Column(df_feat, feature_cols[i])[1]
                 ELSE NaN]]

\* _prep_latest_features: (X, df_feat).  X is the last row restricted to
\* feature_cols, a column missing from the table being filled with NaN
LatestRow(df_feat, feature_cols) ==
    [cols |-> feature_cols,
     vals |-> [i \in 1..Len(feature_cols) |->
                 IF feature_cols[i] \in df_feat.cols
                 THEN Column(df_feat, feature_cols[i])[df_feat.n]
                 ELSE NaN]]

BuildFeatures(df, sameValue) == add_ticker_onehots(add_features_lightweight(df, sameValue))

PrepLatestFeatures(df, feature_cols, sameValue) ==
    Once(BuildFeatures(df, sameValue), LAMBDA df_feat : LatestRow(df_feat, feature_cols))

\* .all(axis=1) in place of .any(axis=1)
HasMissingAll(X) == \A i \in 1..Len(X.vals) : IsNaN(X.vals[i])

\* X_latest.isna().any(axis=1).iloc[0]
HasMissing(X) == \E i \in 1..Len(X.vals) : IsNaN(X.vals[i])

(***************************************************************************)
(* Inputs: what the history table can return for a ticker                  *)
(***************************************************************************)
MIN_HISTORY_DAYS == 25
MaxBars == 26
FirstDay == 739000

\* close prices by shape: flat 4,4,4,..  zigzag 2,4,2,4,..
ShapeClose(shape, i) ==
    CASE shape = "flat" -> 4
      [] shape = "zigzag" -> IF i % 2 = 1 THEN 2 ELSE 4

\* the bars of a history of n rows; tail selects what is unusual about the end:
\*   spike: the last close doubles       rebound: the close before the last is 0
\*   openZero: the last open is 0        noVwap: the items carry no vwap
HistoryRows(shape, n, tail) ==
    [i \in 1..n |->
        LET c0 == ShapeClose(shape, i)
            c == IF tail = "spike" /\ i = n THEN 2 * c0
                 ELSE IF tail = "rebound" /\ i = n - 1 THEN 0
                 ELSE c0
        IN  [date |-> FirstDay + i,
             open |-> IF tail = "openZero" /\ i = n THEN Num(0) ELSE Num(c),
             high |-> Num(c + 1),
             low |-> Num(IF c = 0 THEN 0 ELSE c - 1),
             close |-> Num(c),
             volume |-> Num(IF tail = "spike" /\ i = n THEN 30 ELSE 10),
             vwap |-> IF tail = "noVwap" THEN NaN ELSE Num(IF c = 0 THEN 1 ELSE c)]]

(***************************************************************************)
(* "Why" strings.  A rendered string is the sequence of the pieces that    *)
(* the f-string concatenates.                                              *)
(***************************************************************************)
FRIENDLY ==
    [return_1d |-> "short-term momentum",
     return_5d |-> "5-day momentum",
     return_10d |-> "10-day momentum",
     price_to_ma5 |-> "price vs 5-day average",
     price_to_ma20 |-> "price vs 20-day average",
     volatility_5d |-> "recent volatility",
     volatility_10d |-> "10-day volatility",
     daily_range |-> "intraday price range",
     volume_ratio |-> "unusual trading volume",
     rsi_14 |-> "RSI level",
     close_to_vwap |-> "close vs VWAP",
     day_of_week |-> "day-of-week pattern"]

\* FRIENDLY.get(c, c), for a name without the ticker_ prefix
FriendlyLabel(c) == IF c.id \in DOMAIN FRIENDLY THEN FRIENDLY[c.id] ELSE c.id

FALLBACK_WHY == <<"Based on recent price and volume patterns.">>
NOT_ENOUGH_WHY == <<"Not enough recent history yet.">>
MISSING_WHY == <<"Missing feature values for today.">>

\* series.replace([inf, -inf], nan) with the NaN entries dropped, which is what
\* mean() and std() aggregate over
FiniteValues(series) == SelectSeq(series, IsFinite)

\* Series.mean() over the non-NaN values
Mean(vals) == Div(SumRange(vals, 1, Len(vals)), Num(Len(vals)))

\* the square of Series.std() (ddof = 1): NaN for a single value (0 / 0)
Variance(vals) ==
    Once(Mean(vals), LAMBDA mu :
        LET sq == [i \in 1..Len(vals) |-> Mul(Sub(vals[i], mu), Sub(vals[i], mu))]
        IN  Div(SumRange(sq, 1, Len(vals)), Num(Len(vals) - 1)))

\* what the loop reads of a column: whether series.isna().all(), last[c], mu
\* and the square of sd
SeriesStats(series, n) ==
    Once(FiniteValues(series), LAMBDA vals :
        [all_na |-> Len(vals) = 0, last |-> series[n],
         mu |-> Mean(vals), var |-> Variance(vals)])

\* One entry of scores for column c at 0-based position i of feature_cols, or
\* <<>> when the loop skips the column.  std() is a square root, so z is kept
\* as its sign (zneg) and its square (zsq), and abs(z) * imp as its square
\* (score2): importances being >= 0, the order of the scores is unchanged.
ScoreEntry(model, df_feat, c, i) ==
    IF StartsWithTicker(c) THEN <<>>
    ELSE IF c.id \in RawFields THEN <<>>
    ELSE IF c \notin df_feat.cols THEN <<>>
    ELSE Once(SeriesStats(Column(df_feat, c), df_feat.n), LAMBDA st :
            IF st.all_na THEN <<>>
            ELSE IF IsZero(st.var) \/ ~IsFinite(st.var) THEN <<>>
            ELSE LET dev == Sub(st.last, st.mu)
                     zsq == IF IsFinite(st.last) THEN Div(Mul(dev, dev), st.var) ELSE Zero
                     zneg == IsFinite(st.last) /\ Lt(dev, Zero)
                     imp == IF i < Len(model.importances)
                            THEN model.importances[i + 1] ELSE Zero
                 IN  <<[score2 |-> Mul(zsq, Mul(imp, imp)), c |-> c, zneg |-> zneg]>>)

RECURSIVE Scores(_, _, _, _)
Scores(model, feature_cols, df_feat, hi) ==
    IF hi = 0 THEN <<>>
    ELSE Scores(model, feature_cols, df_feat, hi - 1)
            \o ScoreEntry(model, df_feat, feature_cols[hi], hi - 1)

\* the scores left in schema order, the sort forgotten
Unsorted(scores) == scores

\* list.sort(reverse=True, key=score) is stable: entry i comes before entry j
\* when its score is higher, or equal with i earlier in the list
SortsBefore(scores, i, j) ==
    \/ Gt(scores[i].score2, scores[j].score2)
    \/ Eq(scores[i].score2, scores[j].score2) /\ i < j

SortDesc(scores) ==
    [r \in 1..Len(scores) |->
        scores[CHOOSE i \in 1..Len(scores) :
                    Cardinality({j \in 1..Len(scores) : SortsBefore(scores, j, i)}) = r - 1]]

\* scores[:1] in place of scores[:2]
Top1(scores) == SubSeq(scores, 1, IF Len(scores) < 1 THEN Len(scores) ELSE 1)

\* scores[:2]
Top2(scores) == SubSeq(scores, 1, IF Len(scores) < 2 THEN Len(scores) ELSE 2)

\* f"{direction} {label}"
Phrase(e) == <<IF e.zneg THEN "low" ELSE "high", " ", FriendlyLabel(e.c)>>

RankedScores(model, feature_cols, df_feat) ==
    Once(Scores(model, feature_cols, df_feat, Len(feature_cols)), SortDesc)

\* "Driven mainly by X." or "Driven mainly by X and Y."
Sentence(top) ==
    IF Len(top) = 1
    THEN <<"Driven mainly by ">> \o Phrase(top[1]) \o <<".">>
    ELSE <<"Driven mainly by ">> \o Phrase(top[1]) \o <<" and ">> \o Phrase(top[2]) \o <<".">>

\* len(df_feat) <= 10 in place of len(df_feat) < 10
WhyStringAboveTenRows(model, feature_cols, df_feat) ==
    IF ~model.has_importances \/ df_feat.n <= 10 THEN FALLBACK_WHY
    ELSE Once(RankedScores(model, feature_cols, df_feat), LAMBDA scores :
            IF scores = <<>> THEN FALLBACK_WHY ELSE Sentence(Top2(scores)))

_why_string(model, feature_cols, df_feat) ==
    IF ~model.has_importances \/ df_feat.n < 10 THEN FALLBACK_WHY
    ELSE Once(RankedScores(model, feature_cols, df_feat), LAMBDA scores :
            IF scores = <<>> THEN FALLBACK_WHY ELSE Sentence(Top2(scores)))

\* The histories the table hands back, by kind: too short (no item at all, or
\* one bar short of the minimum), long enough with an incomplete latest row
\* (flat closes leave rsi_14 undefined; no vwap leaves close_to_vwap undefined),
\* and long enough with every raw field present.
ShortHistories == <<HistoryRows("zigzag", MIN_HISTORY_DAYS - 1, "none"), <<>>>>
GappyHistories ==
    <<HistoryRows("flat", MIN_HISTORY_DAYS, "none"), HistoryRows("zigzag", MaxBars, "noVwap")>>
FullHistories ==
    <<HistoryRows("zigzag", MaxBars, "spike"),
      HistoryRows("zigzag", MIN_HISTORY_DAYS, "none"),
      HistoryRows("zigzag", MIN_HISTORY_DAYS, "openZero")>>

\* what the query can return for the j-th watchlist ticker: one history of each
\* kind, the tickers taking turns through the histories of a kind
HistoriesOf(j) ==
    {ShortHistories[(j % 2) + 1], GappyHistories[(j % 2) + 1], FullHistories[(j % 3) + 1]}

(***************************************************************************)
(* Inputs: the artifacts in the model bucket.  A classifier is a decision  *)
(* stump on one schema column (predict_proba is a function of the vector), *)
(* with or without feature_importances_.                                   *)
(***************************************************************************)
Twentieths(seq) == [i \in 1..Len(seq) |-> Fin(1, seq[i], 20)]

\* the columns train_shared_model.py writes to feature_cols.json
TrainedSchema ==
    <<Col("open"), Col("high"), Col("low"), Col("close"), Col("volume"), Col("vwap"),
      Col("return_1d"), Col("return_5d"), Col("return_10d"),
      Col("ma_5"), Col("ma_20"), Col("price_to_ma5"), Col("price_to_ma20"),
      Col("volatility_5d"), Col("volatility_10d"),
      Col("volume_ma_20"), Col("volume_ratio"), Col("rsi_14"),
      Col("daily_range"), Col("close_to_vwap"), Col("day_of_week"),
      TickerCol("AAPL"), TickerCol("AMZN"), TickerCol("GOOGL"),
      TickerCol("MSFT"), TickerCol("NVDA"), TickerCol("TSLA")>>

Artifacts ==
    {[feature_cols |-> TrainedSchema,
      model |-> [has_importances |-> TRUE,
                 importances |-> Twentieths(<<1, 1, 1, 1, 1, 1, 2, 1, 1, 1, 1, 1, 1,
                                              2, 1, 0, 1, 2, 0, 0, 0, 0, 0, 0, 0, 0, 0>>),
                 split |-> 7, lo |-> Fin(1, 2, 5), hi |-> Fin(1, 1, 2)]],
     \* a schema naming a column the pipeline never computes
     [feature_cols |-> <<Col("return_1d"), Col("sentiment"), TickerCol("NVDA")>>,
      model |-> [has_importances |-> TRUE,
                 importances |-> Twentieths(<<12, 6, 2>>),
                 split |-> 1, lo |-> Fin(1, 1, 5), hi |-> Fin(1, 4, 5)]],
     \* a classifier without feature_importances_, and fewer weights than columns
     [feature_cols |-> <<Col("day_of_week"), Col("volume_ratio"), Col("price_to_ma5"),
                         Col("close"), TickerCol("TSLA")>>,
      model |-> [has_importances |-> FALSE,
                 importances |-> <<>>,
                 split |-> 2, lo |-> Fin(1, 1, 2), hi |-> Fin(1, 9, 10)]]}

\* model.predict_proba(X_latest)[0, 1] for a vector the classifier accepts
predict_proba(model, X) ==
    IF Ge(X.vals[model.split], Num(1)) THEN model.hi ELSE model.lo

\* a vector holding +-inf: the classifier's input validation may reject it
HasInf(X) == \E i \in 1..Len(X.vals) : IsInf(X.vals[i])

(***************************************************************************)
(* The predict lambda_handler                                              *)
(***************************************************************************)
\* pc .. response: one invocation of lambda_handler (sameValue: the pandas build)
\* fin, fout: the arguments and the result of one call of a pure function
VARIABLES pc, sameValue, model, feature_cols, t, df, X_latest, prob_up, preds,
          calls, response, fin, fout

\* one call of the ingest service's get_json: where it stands (gpc), its
\* argument attempts, its locals i (attempt), r (resp), last_status, last_body,
\* what it returned or raised, and what it did: the requests issued so far and
\* the last time.sleep
VARIABLES gpc, attempts, attempt, resp, last_status, last_body, returned, requests,
          slept

fetch == <<gpc, attempts, attempt, resp, last_status, last_body, returned, requests,
           slept>>

\* the ingest service: the two tables it writes (table holds the daily winners,
\* keyed by date; watchlist_table the bars, keyed by ticker and date), the day
\* it runs on, the runs made so far, and one invocation of its lambda_handler:
\* where it stands (ipc), its locals date_iso, rows (grouped_rows), winner and
\* saved_item, and what it returned or raised
VARIABLES table, watchlist_table, today, runs, ipc, date_iso, grouped_rows, winner,
          saved_item, result

ingest == <<table, watchlist_table, today, runs, ipc, date_iso, grouped_rows, winner,
            saved_item, result>>

vars == <<pc, sameValue, model, feature_cols, t, df, X_latest, prob_up, preds,
          calls, response, fin, fout, fetch, ingest>>

handler == <<pc, sameValue, model, feature_cols, t, df, X_latest, prob_up, preds,
             calls, response>>

None == [k |-> "None"]
Bool(b) == [k |-> "bool", v |-> b]
NoVector == [cols |-> <<>>, vals |-> <<>>]

\* lambda_handler not yet entered
HandlerIdle ==
    /\ pc = "load"
    /\ sameValue = TRUE
    /\ model = None
    /\ feature_cols = <<>>
    /\ t = 1
    /\ df = [ticker |-> "", rows |-> <<>>]
    /\ X_latest = NoVector
    /\ prob_up = None
    /\ preds = <<>>
    /\ calls = <<>>
    /\ response = None

\* the ingest lambda_handler not invoked, its tables empty
IngestIdle ==
    /\ table = {}
    /\ watchlist_table = {}
    /\ today = 0
    /\ runs = 0
    /\ ipc = "idle"
    /\ date_iso = 0
    /\ grouped_rows = <<>>
    /\ winner = None
    /\ saved_item = None
    /\ result = None

\* get_json not called
FetchIdle ==
    /\ gpc = "idle"
    /\ attempts = 0
    /\ attempt = 0
    /\ resp = None
    /\ last_status = None
    /\ last_body = None
    /\ returned = None
    /\ requests = 0
    /\ slept = None

Init ==
    /\ HandlerIdle
    /\ FetchIdle
    /\ IngestIdle
    /\ fin = None
    /\ fout = None

\* model, feature_cols = _load_model_and_features()
LoadArtifacts ==
    /\ pc = "load"
    /\ \E a \in Artifacts : model' = a.model /\ feature_cols' = a.feature_cols
    /\ pc' = "loop"
    /\ UNCHANGED <<sameValue, t, df, X_latest, prob_up, preds, calls, response, fin, fout, fetch, ingest>>

\* the calls of _load_model_and_features that can raise: the two downloads (made
\* when the file is not cached in /tmp), joblib.load and json.load
LoadSteps == {"download_model", "download_features", "joblib_load", "json_load"}

\* where lambda_handler stands after one of them has raised
LoadFailures == {"raised_" \o step : step \in LoadSteps}

\* the failure caught and an empty body answered
LoadFailureAnswered ==
    /\ pc = "load"
    /\ \E step \in LoadSteps : pc' = "done"
    /\ response' = [statusCode |-> 200, predictions |-> preds]
    /\ UNCHANGED <<sameValue, model, feature_cols, t, df, X_latest, prob_up, preds,
                   calls, fin, fout, fetch, ingest>>

\* model, feature_cols = _load_model_and_features(), when a download or a parse
\* raises: nothing in lambda_handler catches it, so the invocation ends there
LoadArtifactsRaises ==
    /\ pc = "load"
    /\ \E step \in LoadSteps : pc' = "raised_" \o step
    /\ UNCHANGED <<sameValue, model, feature_cols, t, df, X_latest, prob_up, preds,
                   calls, response, fin, fout, fetch, ingest>>

\* for t in WATCHLIST: df = _query_ticker_history(t, start)
QueryHistory ==
    /\ pc = "loop"
    /\ t <= Len(WATCHLIST)
    /\ \E rows \in HistoriesOf(t) :
            df' = [ticker |-> WATCHLIST[t], rows |-> SortByDate(rows)]
    /\ pc' = "check_len"
    /\ UNCHANGED <<sameValue, model, feature_cols, t, X_latest, prob_up, preds, calls,
                   response, fin, fout, fetch, ingest>>

\* <= in place of <
TooShortInclusive(d) == d.rows = <<>> \/ Len(d.rows) <= MIN_HISTORY_DAYS

\* df.empty or len(df) < MIN_HISTORY_DAYS
TooShort(d) == d.rows = <<>> \/ Len(d.rows) < MIN_HISTORY_DAYS

\* prob_up 0.0 in place of None
NullEntryZeroProb(ticker, why) ==
    [ticker |-> ticker, pred_up |-> None, prob_up |-> Num(0), why |-> why]

NullEntry(ticker, why) ==
    [ticker |-> ticker, pred_up |-> None, prob_up |-> None, why |-> why]

\* preds.append({... "Not enough recent history yet."}); continue
NotEnoughHistory ==
    /\ pc = "check_len"
    /\ TooShort(df)
    /\ preds' = Append(preds, NullEntry(WATCHLIST[t], NOT_ENOUGH_WHY))
    /\ t' = t + 1
    /\ pc' = "loop"
    /\ UNCHANGED <<sameValue, model, feature_cols, df, X_latest, prob_up, calls,
                   response, fin, fout, fetch, ingest>>

\* X_latest, df_feat = _prep_latest_features(df, feature_cols)
PrepLatest ==
    /\ pc = "check_len"
    /\ ~TooShort(df)
    /\ X_latest' = PrepLatestFeatures(df, feature_cols, sameValue)
    /\ pc' = "check_na"
    /\ UNCHANGED <<sameValue, model, feature_cols, t, df, prob_up, preds, calls,
                   response, fin, fout, fetch, ingest>>

\* preds.append({... "Missing feature values for today."}); continue
MissingFeatures ==
    /\ pc = "check_na"
    /\ HasMissing(X_latest)
    /\ preds' = Append(preds, NullEntry(WATCHLIST[t], MISSING_WHY))
    /\ t' = t + 1
    /\ pc' = "loop"
    /\ UNCHANGED <<sameValue, model, feature_cols, df, X_latest, prob_up, calls,
                   response, fin, fout, fetch, ingest>>

\* what the classifier is handed: the vector (its values by kind), for a ticker
\* with a history of so many rows
Call(ticker, d, X) ==
    [ticker |-> ticker, rows |-> Len(d.rows),
     kinds |-> [i \in 1..Len(X.vals) |-> X.vals[i].k]]

\* prob_up = float(model.predict_proba(X_latest)[0, 1])
Predict ==
    /\ pc = "check_na"
    /\ ~HasMissing(X_latest)
    /\ calls' = Append(calls, Call(WATCHLIST[t], df, X_latest))
    /\ prob_up' = predict_proba(model, X_latest)
    /\ pc' = "explain"
    /\ UNCHANGED <<sameValue, model, feature_cols, t, df, X_latest, preds, response, fin,
                   fout, fetch, ingest>>

\* the same call on a vector holding +-inf, when the classifier rejects it: the
\* exception leaves lambda_handler, which returns nothing
PredictRaises ==
    /\ pc = "check_na"
    /\ ~HasMissing(X_latest)
    /\ HasInf(X_latest)
    /\ calls' = Append(calls, Call(WATCHLIST[t], df, X_latest))
    /\ pc' = "raised"
    /\ UNCHANGED <<sameValue, model, feature_cols, t, df, X_latest, prob_up, preds,
                   response, fin, fout, fetch, ingest>>

\* pred_up = bool(prob_up >= 0.5); why = _why_string(...); preds.append({...})
Explain ==
    /\ pc = "explain"
    /\ preds' = Append(preds,
                   [ticker |-> WATCHLIST[t],
                    pred_up |-> Bool(Ge(prob_up, Fin(1, 1, 2))),
                    prob_up |-> prob_up,
                    why |-> Once(BuildFeatures(df, sameValue), LAMBDA df_feat :
                                    _why_string(model, feature_cols, df_feat))])
    /\ t' = t + 1
    /\ pc' = "loop"
    /\ UNCHANGED <<sameValue, model, feature_cols, df, X_latest, prob_up, calls,
                   response, fin, fout, fetch, ingest>>

\* return {"statusCode": 200, ..., "body": json.dumps({"asof": ..., "predictions": preds})}
Respond ==
    /\ pc = "loop"
    /\ t > Len(WATCHLIST)
    /\ response' = [statusCode |-> 200, predictions |-> preds]
    /\ pc' = "done"
    /\ UNCHANGED <<sameValue, model, feature_cols, t, df, X_latest, prob_up, preds,
                   calls, fin, fout, fetch, ingest>>

Next ==
    \/ LoadArtifacts
    \/ LoadArtifactsRaises
    \/ QueryHistory
    \/ NotEnoughHistory
    \/ PrepLatest
    \/ MissingFeatures
    \/ Predict
    \/ PredictRaises
    \/ Explain
    \/ Respond

Spec == Init /\ [][Next]_vars

(***************************************************************************)
(* Properties of one invocation of lambda_handler                          *)
(***************************************************************************)
Tickers(entries) == [j \in 1..Len(entries) |-> entries[j].ticker]

\* the entries appended so far are those of the tickers already processed, one
\* each and in watchlist order, and so are the entries of a response
OneEntryPerTicker ==
    /\ pc \notin {"load", "done"} => Tickers(preds) = SubSeq(WATCHLIST, 1, t - 1)
    /\ pc = "done" => Tickers(response.predictions) = WATCHLIST

\* C1 (as stated): once the artifacts are loaded, no outcome of a ticker ends
\* the invocation before its response, and the response carries exactly one
\* entry per watchlist ticker, in watchlist order.
AlwaysAnswersWatchlist == pc # "raised" /\ OneEntryPerTicker

\* C1, what the code does: a latest row that holds +-inf and no NaN passes the
\* isna check, predict_proba raises on it, and the invocation ends with the
\* entries of the earlier tickers unreturned and the later tickers unprocessed
RaisedBeforeAnswering ==
    /\ pc = "raised"
    /\ 1 < t /\ t < Len(WATCHLIST)
    /\ Len(preds) = t - 1
    /\ response = None
    /\ \E i \in 1..Len(X_latest.vals) : X_latest.vals[i].k = "inf"
    /\ \A i \in 1..Len(X_latest.vals) : X_latest.vals[i].k # "nan"

\* C2: every vector handed to predict_proba belongs to a ticker whose history
\* has at least MIN_HISTORY_DAYS rows and holds no NaN, and a call is made only
\* from the point after the length check and the isna check of that ticker,
\* both of which have passed.
NoCallBeforeChecks ==
    /\ [](\A j \in 1..Len(calls) :
            /\ calls[j].rows >= MIN_HISTORY_DAYS
            /\ \A i \in DOMAIN calls[j].kinds : calls[j].kinds[i] # "nan")
    /\ [][calls' # calls =>
            /\ pc = "check_na"
            /\ Len(df.rows) >= MIN_HISTORY_DAYS
            /\ \A i \in 1..Len(X_latest.vals) : X_latest.vals[i].k # "nan"
            /\ calls' = Append(calls, Call(WATCHLIST[t], df, X_latest))]_vars

\* C2 witness: the classifier has been called for one ticker after it was
\* withheld from a ticker with a short history and from one with a NaN
CalledAfterRefusals ==
    /\ Len(calls) > 0
    /\ \E i, j \in 1..Len(preds) :
            /\ preds[i].why = <<"Not enough recent history yet.">>
            /\ preds[j].why = <<"Missing feature values for today.">>

\* no ticker has been touched: no history queried, no entry appended, no
\* classifier call made, nothing answered
NoTickerTouched ==
    /\ t = 1
    /\ df = [ticker |-> "", rows |-> <<>>]
    /\ X_latest = NoVector
    /\ prob_up = None
    /\ preds = <<>>
    /\ calls = <<>>
    /\ response = None

\* C11: artifact loading comes before any ticker is processed, and when a step
\* of it raises the invocation ends with that failure: no history query, no
\* classifier call, no entry (not even a null one) and no response, then or
\* later; every step that touches a ticker or answers is taken with the
\* artifacts loaded.
LoadFailureIsFatal ==
    /\ [](pc = "load" => NoTickerTouched /\ model = None /\ feature_cols = <<>>)
    /\ [](pc \in LoadFailures => NoTickerTouched /\ model = None /\ feature_cols = <<>>)
    /\ [][pc = "load" => pc' \in LoadFailures \cup {"loop"}]_vars
    /\ [][(pc \in LoadFailures) => UNCHANGED vars]_vars
    /\ [][df' # df \/ preds' # preds \/ calls' # calls \/ response' # response
            => model # None /\ feature_cols # <<>> /\ pc \notin LoadFailures \cup {"load"}]_vars

\* C11 witness: json.load of the schema has raised, after the classifier was
\* read, and the invocation stands there with nothing queried or answered
SchemaLoadRaised ==
    /\ pc = "raised_json_load"
    /\ NoTickerTouched
    /\ model = None

NotEnoughEntry(ticker) ==
    [ticker |-> ticker, pred_up |-> None, prob_up |-> None,
     why |-> <<"Not enough recent history yet.">>]

\* C4: a ticker whose history has fewer than MIN_HISTORY_DAYS rows (none at
\* all included) gets exactly the entry {ticker, None, None, "Not enough recent
\* history yet."}, and a history of exactly MIN_HISTORY_DAYS rows passes the
\* length check.
ShortHistoryEntry ==
    [][pc = "check_len" =>
            IF Len(df.rows) < MIN_HISTORY_DAYS
            THEN preds' = Append(preds, NotEnoughEntry(WATCHLIST[t]))
            ELSE preds' = preds /\ pc' = "check_na"]_vars

\* C4 witness: AAPL with 24 bars has got its entry, after a ticker with exactly
\* MIN_HISTORY_DAYS bars went on to the classifier
ShortHistoriesAnswered ==
    /\ MIN_HISTORY_DAYS = 25
    /\ pc = "loop"
    /\ t = 3
    /\ df.ticker = "AAPL"
    /\ Len(df.rows) = 24
    /\ preds[2] = NotEnoughEntry("AAPL")
    /\ calls # <<>>
    /\ calls[1].rows = MIN_HISTORY_DAYS

\* C5: in every entry pred_up is None exactly when prob_up is None; an entry
\* with None carries "Not enough recent history yet." when the history was too
\* short and "Missing feature values for today." when the latest row held a
\* NaN, and no other why; an entry with a probability carries a boolean.
NullTogetherFixedWhy ==
    /\ [](\A j \in 1..Len(preds) :
            /\ preds[j].pred_up = None <=> preds[j].prob_up = None
            /\ preds[j].pred_up = None =>
                    preds[j].why \in {<<"Not enough recent history yet.">>,
                                      <<"Missing feature values for today.">>}
            /\ preds[j].pred_up # None =>
                    preds[j].pred_up.k = "bool" /\ preds[j].prob_up.k = "fin")
    /\ [][preds' # preds /\ preds'[Len(preds')].prob_up = None =>
            preds'[Len(preds')].why =
                IF Len(df.rows) < MIN_HISTORY_DAYS
                THEN <<"Not enough recent history yet.">>
                ELSE <<"Missing feature values for today.">>]_vars

\* C5 witness: both kinds of null entry next to an entry with a rationale
NullAndExplainedEntries ==
    \E i, j, k \in 1..Len(preds) :
        /\ preds[i].prob_up = None /\ preds[i].why = <<"Not enough recent history yet.">>
        /\ preds[j].prob_up = None /\ preds[j].why = <<"Missing feature values for today.">>
        /\ preds[k].prob_up # None /\ preds[k].why[1] = "Driven mainly by "

(***************************************************************************)
(* Feature engineering on its own: one call of _prep_latest_features with  *)
(* the isna check of lambda_handler, or one computation of rsi_14 by the   *)
(* handler and by the training script.  fin holds the arguments, fout the  *)
(* result.                                                                 *)
(***************************************************************************)
MaxRsiBars == 16

Reversed(seq) == [i \in 1..Len(seq) |-> seq[Len(seq) + 1 - i]]

\* strictly increasing closes: the i-th value after i steps of a pattern
RisingClose(start, pattern, i) ==
    CASE pattern = "ones" -> start + i
      [] pattern = "twos" -> start + 2 * i
      [] pattern = "mixed" -> start + i + (i \div 2)
      [] pattern = "growing" -> start + (i * (i + 1)) \div 2

Rising(start, pattern, n) == [i \in 1..n |-> RisingClose(start, pattern, i)]

\* the close sequences rsi_14 is computed on: strictly increasing, strictly
\* decreasing, constant, and monotone but for the first step
CloseSequences ==
    LET rising == {Rising(start, pattern, n) :
                        start \in {0, 50}, pattern \in {"ones", "twos", "mixed", "growing"},
                        n \in 14..MaxRsiBars}
        bent == {[r EXCEPT ![1] = r[2] + 1] : r \in rising}
    IN  rising \cup {Reversed(r) : r \in rising}
            \cup bent \cup {Reversed(r) : r \in bent}
            \cup {[i \in 1..n |-> 4] : n \in 14..MaxRsiBars}

\* bars with the given closes, one per day
BarsOfCloses(closes) ==
    [i \in 1..Len(closes) |->
        [date |-> FirstDay + i, open |-> Num(closes[i]), high |-> Num(closes[i] + 1),
         low |-> Num(closes[i]), close |-> Num(closes[i]), volume |-> Num(10),
         vwap |-> Num(closes[i] + 1)]]

\* the schemas _prep_latest_features is called with: those of the artifacts and
\* one that starts with a one-hot and names an absent column in the middle
Schemas ==
    {a.feature_cols : a \in Artifacts}
        \cup {<<TickerCol("TSLA"), Col("daily_range"), Col("sentiment"), Col("close"),
                Col("rsi_14"), Col("return_1d")>>}

\* the histories it is called with: in date order or not
PrepHistories ==
    LET sorted == {HistoryRows(shape, n, tail) :
                        shape \in {"flat", "zigzag"},
                        n \in {1, 15, MIN_HISTORY_DAYS, MaxBars},
                        tail \in {"none", "spike", "rebound", "openZero", "noVwap"}}
    IN  sorted \cup {Reversed(h) : h \in sorted}

FeaturesInit ==
    /\ HandlerIdle
    /\ FetchIdle
    /\ IngestIdle
    /\ fout = None
    /\ \/ \E h \in PrepHistories, schema \in Schemas, tk \in {"NVDA", "TSLA"}, sv \in BOOLEAN :
            fin = [op |-> "prep", df |-> [ticker |-> tk, rows |-> h],
                   feature_cols |-> schema, sameValue |-> sv]
       \/ \E closes \in CloseSequences, sv \in BOOLEAN :
            fin = [op |-> "rsi", df |-> [ticker |-> "NVDA", rows |-> BarsOfCloses(closes)],
                   feature_cols |-> <<Col("rsi_14")>>, sameValue |-> sv]

\* X_latest, df_feat = _prep_latest_features(df, feature_cols), and then
\* X_latest.isna().any(axis=1).iloc[0]
PrepLatestCall ==
    /\ fin # None /\ fin.op = "prep" /\ fout = None
    /\ LET X == PrepLatestFeatures(fin.df, fin.feature_cols, fin.sameValue)
       IN  fout' = [X |-> X, has_missing |-> HasMissing(X)]
    /\ UNCHANGED <<handler, fin, fetch, ingest>>

\* df["rsi_14"] of add_features_lightweight(df) and of the training add_features(df)
RsiCall ==
    /\ fin # None /\ fin.op = "rsi" /\ fout = None
    /\ LET n == Len(fin.df.rows)
       IN  fout' = [predict |-> Column(add_features_lightweight(fin.df, fin.sameValue),
                                       Col("rsi_14")),
                    train |-> TrainRsi14(n, Field(n, SortByDate(fin.df.rows), "close"),
                                         fin.sameValue)]
    /\ UNCHANGED <<handler, fin, fetch, ingest>>

FeaturesNext == PrepLatestCall \/ RsiCall

SpecFeatures == FeaturesInit /\ [][FeaturesNext]_vars

(***************************************************************************)
(* Properties of the feature engineering                                   *)
(***************************************************************************)
Prepared == fin # None /\ fin.op = "prep" /\ fout # None

\* the bar of the latest date
LatestBar(rows) == CHOOSE r \in {rows[i] : i \in 1..Len(rows)} :
                        \A i \in 1..Len(rows) : rows[i].date <= r.date

\* the columns of the table _prep_latest_features computes
ComputedColumns ==
    {Col(f) : f \in RawFields \cup FeatureNames \cup {"date", "ticker"}}
        \cup {TickerCol(WATCHLIST[j]) : j \in 1..Len(WATCHLIST)}

\* C3 (as stated): the has-missing flag is true when a schema column is absent
\* from the table, and it is false exactly when every value of the latest row
\* is finite.
FlagFalseIffAllFinite ==
    Prepared =>
        /\ (\E i \in 1..Len(fin.feature_cols) : fin.feature_cols[i] \notin ComputedColumns)
                => fout.has_missing
        /\ ~fout.has_missing <=> \A i \in 1..Len(fout.X.vals) : fout.X.vals[i].k = "fin"

\* C3, what the code does: the flag is true exactly when the latest row holds
\* a NaN, so a row whose only undefined values are +-inf leaves it false
InfRowNotFlagged ==
    /\ Prepared
    /\ ~fout.has_missing
    /\ \E i \in 1..Len(fout.X.vals) : fout.X.vals[i].k = "inf"

StrictlyIncreasing(closes) == \A i \in 1..(Len(closes) - 1) : closes[i] < closes[i + 1]
StrictlyDecreasing(closes) == \A i \in 1..(Len(closes) - 1) : closes[i] > closes[i + 1]

RsiComputed == fin # None /\ fin.op = "rsi" /\ fout # None

ClosesOf(rows) == [i \in 1..Len(rows) |-> rows[i].close.s * rows[i].close.n]

\* C6: on a strictly increasing close sequence rsi_14 is the finite value 100
\* on every row from the 14th on, and on a strictly decreasing one it is the
\* finite value 0 there, in the handler's add_features_lightweight and in the
\* training add_features alike.
RsiAtBoundaries ==
    RsiComputed =>
        LET closes == ClosesOf(fin.df.rows)
            rsi(i) == {fout.predict[i], fout.train[i]}
        IN  /\ StrictlyIncreasing(closes) =>
                    \A i \in 14..Len(closes) : rsi(i) = {Fin(1, 100, 1)}
            /\ StrictlyDecreasing(closes) =>
                    \A i \in 14..Len(closes) :
                        \A v \in rsi(i) : v.k = "fin" /\ v.n = 0

\* C6 witness: rsi_14 computed on a strictly increasing sequence longer than
\* one window, where the average loss is zero and rs is a division by zero
RisingRsiComputed ==
    /\ RsiComputed
    /\ ~fin.sameValue
    /\ Len(fin.df.rows) > 14
    /\ StrictlyIncreasing(ClosesOf(fin.df.rows))
    /\ fout.predict[Len(fin.df.rows)] = Fin(1, 100, 1)
    /\ fout.train[14] = Fin(1, 100, 1)

\* C10: the vector has the schema's columns, as many and in the same order;
\* each value is that of the table's row of the latest date (a raw field is the
\* field of the latest bar, a one-hot tells the ticker), and a column the table
\* lacks is NaN.
VectorFollowsSchema ==
    Prepared =>
        LET X == fout.X
            n == Len(fin.df.rows)
            tab == BuildFeatures(fin.df, fin.sameValue)
            bar == LatestBar(fin.df.rows)
        IN  /\ X.cols = fin.feature_cols
            /\ DOMAIN X.vals = 1..Len(fin.feature_cols)
            /\ \A i \in 1..Len(fin.feature_cols) :
                    LET c == fin.feature_cols[i]
                    IN  IF c \notin ComputedColumns THEN X.vals[i] = NaN
                        ELSE /\ X.vals[i] = Column(tab, c)[n]
                             /\ c.id \in RawFields /\ ~StartsWithTicker(c)
                                    => X.vals[i] = bar[c.id]
                             /\ StartsWithTicker(c)
                                    => X.vals[i] = Num(IF c.id = fin.df.ticker THEN 1 ELSE 0)

\* C10 witness: a vector taken from a history handed over latest bar first,
\* under a schema with a column the table lacks between columns it has
VectorFromUnsortedHistory ==
    /\ Prepared
    /\ Len(fin.df.rows) > 1
    /\ fin.df.rows[1].date > fin.df.rows[2].date
    /\ \E i, j, k \in 1..Len(fout.X.vals) :
            /\ i < j /\ j < k
            /\ fout.X.vals[i].k = "fin" /\ fout.X.cols[i] \in ComputedColumns
            /\ fout.X.vals[j] = NaN /\ fout.X.cols[j] \notin ComputedColumns
            /\ fout.X.vals[k].k = "fin" /\ fout.X.cols[k] \in ComputedColumns

(***************************************************************************)
(* _why_string on its own: one call on a classifier, a schema and a         *)
(* feature table whose columns are handed over as data.                    *)
(***************************************************************************)
MaxRows == 11

\* a column of n values, by what is notable about it:
\*   spike   1, 0, .., 0, 10: the last value far above the mean
\*   sag     0 x4, 10, .., 10, 11, 5: the last value a little below the mean
\*   level   2, 0, 2, 0, .., 1
\*   flat    the same value on every row
\*   lone    undefined on every row but the last
\*   blank   undefined on every row
\*   cut     spike with an undefined last value
\*   burst   sag with an infinite last value
PatternValue(pattern, n, i) ==
    LET spike == IF i = 1 THEN Num(1) ELSE IF i = n THEN Num(10) ELSE Num(0)
        sag == IF i <= 4 THEN Num(0) ELSE IF i <= n - 2 THEN Num(10)
               ELSE IF i = n - 1 THEN Num(11) ELSE Num(5)
    IN  CASE pattern = "spike" -> spike
          [] pattern = "sag" -> sag
          [] pattern = "level" -> IF i = n THEN Num(1) ELSE Num(2 * (i % 2))
          [] pattern = "flat" -> Num(5)
          [] pattern = "lone" -> IF i = n THEN Num(3) ELSE NaN
          [] pattern = "blank" -> NaN
          [] pattern = "cut" -> IF i = n THEN NaN ELSE spike
          [] pattern = "burst" -> IF i = n THEN Inf(1) ELSE sag

Patterns == {"spike", "sag", "level", "flat", "lone", "blank", "cut", "burst"}

\* a feature table of n rows: pattern[f] is the pattern of column f, or
\* "absent"; the close column and the NVDA one-hot are always there, and vary
TableOf(n, pattern) ==
    LET names == {Col(f) : f \in {g \in DOMAIN pattern : pattern[g] # "absent"}}
        given == [c \in names \cup {Col("close"), TickerCol("NVDA")} |->
                    [i \in 1..n |->
                        IF c \in names THEN PatternValue(pattern[c.id], n, i)
                        ELSE PatternValue("spike", n, i)]]
    IN  [ticker |-> "NVDA", n |-> n, rows |-> <<>>, sameValue |-> TRUE,
         cols |-> DOMAIN given, given |-> given]

\* the tables _why_string is called on, each by its number of rows and the
\* patterns of its columns
WhyTables ==
    {[n |-> n,
      pattern |-> [return_1d |-> p1, rsi_14 |-> p2, volume_ratio |-> p3, sentiment |-> p4]] :
        n \in 9..MaxRows,
        p1 \in Patterns \cup {"absent"}, p2 \in Patterns \cup {"absent"},
        p3 \in {"sag", "flat", "absent"}, p4 \in {"spike", "blank"}}

WhySchemas ==
    {<<Col("return_1d"), Col("rsi_14")>>,
     <<Col("rsi_14"), Col("volume_ratio"), Col("return_1d")>>,
     <<TickerCol("NVDA"), Col("close"), Col("return_1d"), Col("rsi_14"), Col("sentiment")>>}

\* classifiers: without feature_importances_, and with weights that may be
\* fewer than the schema's columns
WhyModels ==
    {[has_importances |-> FALSE, importances |-> <<>>],
     [has_importances |-> TRUE, importances |-> <<Fin(1, 1, 2), Fin(1, 1, 10)>>],
     [has_importances |-> TRUE,
      importances |-> <<Fin(1, 1, 4), Fin(1, 1, 2), Fin(1, 1, 2), Fin(1, 1, 10), Fin(1, 1, 4)>>]}

WhyInit ==
    /\ HandlerIdle
    /\ FetchIdle
    /\ IngestIdle
    /\ fout = None
    /\ \E m \in WhyModels, schema \in WhySchemas, tab \in WhyTables :
            fin = [op |-> "why", model |-> m, feature_cols |-> schema, table |-> tab]

\* why = _why_string(model, feature_cols, df_feat)
WhyCall ==
    /\ fin # None /\ fin.op = "why" /\ fout = None
    /\ fout' = [why |-> Once(TableOf(fin.table.n, fin.table.pattern), LAMBDA df_feat :
                            _why_string(fin.model, fin.feature_cols, df_feat))]
    /\ UNCHANGED <<handler, fin, fetch, ingest>>

WhyNext == WhyCall

SpecWhy == WhyInit /\ [][WhyNext]_vars

(***************************************************************************)
(* Properties of _why_string                                               *)
(***************************************************************************)
WhyComputed == fin # None /\ fin.op = "why" /\ fout # None

\* a schema column that is neither a ticker_ one-hot nor a raw bar field
Candidate(c) ==
    c.pre # "ticker_" /\ c.id \notin {"open", "high", "low", "close", "volume", "vwap"}

\* the column is in the table and its finite values are at least two and not
\* all equal: its standard deviation is defined and not zero
UsableStd(tab, c) ==
    /\ c \in tab.cols
    /\ \E i, j \in 1..tab.n :
            /\ Column(tab, c)[i].k = "fin"
            /\ Column(tab, c)[j].k = "fin"
            /\ Column(tab, c)[i] # Column(tab, c)[j]

\* the positions of the schema whose columns get a score
Scored(tab, cols) == {i \in 1..Len(cols) : Candidate(cols[i]) /\ UsableStd(tab, cols[i])}

\* z of the latest value of column c, as its square and whether it is negative;
\* a latest value that is not finite counts as z = 0
ZOf(tab, c) ==
    LET series == Column(tab, c)
        vals == FiniteValues(series)
        latest == series[tab.n]
        mu == Mean(vals)
    IN  [sq |-> IF latest.k = "fin"
                THEN Div(Mul(Sub(latest, mu), Sub(latest, mu)), Variance(vals))
                ELSE Zero,
         neg |-> latest.k = "fin" /\ Lt(latest, mu)]

\* the importance of the column at position i of the schema
WeightOf(m, i) == IF i <= Len(m.importances) THEN m.importances[i] ELSE Zero

\* the square of |z| x importance
Score2Of(m, tab, cols, i) ==
    Mul(ZOf(tab, cols[i]).sq, Mul(WeightOf(m, i), WeightOf(m, i)))

PhraseOf(tab, c) ==
    <<IF ZOf(tab, c).neg THEN "low" ELSE "high", " ",
      IF c.id \in DOMAIN FRIENDLY THEN FRIENDLY[c.id] ELSE c.id>>

WhyTable == TableOf(fin.table.n, fin.table.pattern)

\* C7: _why_string returns exactly "Based on recent price and volume
\* patterns." when the classifier has no importances, or the table has fewer
\* than 10 rows, or no candidate column has a defined, non-zero standard
\* deviation; in every other case what it returns begins "Driven mainly by ".
FallbackExactlyWhen ==
    WhyComputed =>
        IF \/ ~fin.model.has_importances
           \/ fin.table.n < 10
           \/ Scored(WhyTable, fin.feature_cols) = {}
        THEN fout.why = <<"Based on recent price and volume patterns.">>
        ELSE Len(fout.why) > 1 /\ fout.why[1] = "Driven mainly by "

\* C7 witness: the fallback for the third reason alone: importances, 10 rows,
\* and candidate columns that are constant, or defined on one row only
FallbackForFlatColumns ==
    /\ WhyComputed
    /\ fin.model.has_importances
    /\ fin.table.n = 10
    /\ fin.table.pattern.return_1d = "flat"
    /\ fin.table.pattern.rsi_14 = "lone"
    /\ Col("rsi_14") \in {fin.feature_cols[i] : i \in 1..Len(fin.feature_cols)}
    /\ fout.why = <<"Based on recent price and volume patterns.">>

\* C8: when _why_string does not fall back, it names the scored candidate
\* column of the highest |z| x importance and, when there is another, the one
\* of the highest score among the rest, in that order; each as "high <label>"
\* when z >= 0 and "low <label>" when z < 0, the label being the FRIENDLY name
\* or else the column name; so no ticker_ or raw column is ever named.
NamesTopTwoByScore ==
    WhyComputed /\ fout.why # <<"Based on recent price and volume patterns.">> =>
        LET tab == WhyTable
            cols == fin.feature_cols
            scored == Scored(tab, cols)
            score(i) == Score2Of(fin.model, tab, cols, i)
        IN  \E a \in scored :
                /\ \A d \in scored : Ge(score(a), score(d))
                /\ IF scored = {a}
                   THEN fout.why = <<"Driven mainly by ">> \o PhraseOf(tab, cols[a]) \o <<".">>
                   ELSE \E b \in scored \ {a} :
                            /\ \A d \in scored \ {a} : Ge(score(b), score(d))
                            /\ fout.why = <<"Driven mainly by ">> \o PhraseOf(tab, cols[a])
                                            \o <<" and ">> \o PhraseOf(tab, cols[b]) \o <<".">>

\* C8 witness: three scored columns, the last of the schema named first and
\* the first of the schema not named; a one-hot and close, both with weights
\* and values that vary, are in another schema and are not named
ThirdColumnNamedFirst ==
    /\ WhyComputed
    /\ fin.feature_cols = <<Col("rsi_14"), Col("volume_ratio"), Col("return_1d")>>
    /\ Scored(WhyTable, fin.feature_cols) = {1, 2, 3}
    /\ fout.why = <<"Driven mainly by ", "high", " ", "short-term momentum", " and ",
                    "low", " ", "unusual trading volume", ".">>

\* the scenario of C9: weight 0.5 on return_1d, whose latest value is at
\* z = +3, weight 0.1 on rsi_14, whose latest value is at z = -0.2, and no other
\* column with a score
MomentumScenario ==
    /\ WhyComputed
    /\ fin.model.has_importances
    /\ fin.table.n >= 10
    /\ \E i, j \in 1..Len(fin.feature_cols) :
            /\ fin.feature_cols[i] = Col("return_1d")
            /\ fin.feature_cols[j] = Col("rsi_14")
            /\ Scored(WhyTable, fin.feature_cols) = {i, j}
            /\ WeightOf(fin.model, i) = Fin(1, 1, 2)
            /\ WeightOf(fin.model, j) = Fin(1, 1, 10)
            /\ ZOf(WhyTable, Col("return_1d")) = [sq |-> Num(9), neg |-> FALSE]
            /\ ZOf(WhyTable, Col("rsi_14")) = [sq |-> Fin(1, 1, 25), neg |-> TRUE]

\* one phrase when one column has a score, two joined with " and " otherwise
OnePhrasePerScoredColumn ==
    WhyComputed /\ fout.why # <<"Based on recent price and volume patterns.">> =>
        IF Cardinality(Scored(WhyTable, fin.feature_cols)) = 1
        THEN Len(fout.why) = 5 /\ fout.why[5] = "."
        ELSE Len(fout.why) = 9 /\ fout.why[5] = " and " /\ fout.why[9] = "."

\* C9 (as stated): in the scenario the why string is "Driven mainly by high
\* short-term momentum."; one phrase when one column has a score, else two.
MomentumAloneInScenario ==
    /\ MomentumScenario =>
            fout.why = <<"Driven mainly by ", "high", " ", "short-term momentum", ".">>
    /\ OnePhrasePerScoredColumn

\* C9 (amended): in the scenario return_1d is named before rsi_14 and the why
\* string is "Driven mainly by high short-term momentum and low RSI level.";
\* one phrase when one column has a score, else two joined with " and ".
MomentumThenRsiInScenario ==
    /\ MomentumScenario =>
            fout.why = <<"Driven mainly by ", "high", " ", "short-term momentum", " and ",
                         "low", " ", "RSI level", ".">>
    /\ OnePhrasePerScoredColumn

\* C9 witness: the scenario, under a schema that also holds a one-hot, close
\* and a column without a defined value
ScenarioWithOtherColumns ==
    /\ MomentumScenario
    /\ Len(fin.feature_cols) = 5
    /\ Len(fout.why) = 9

(***************************************************************************)
(* The ingest service's get_json (src/services/ingest/handler.py)          *)
(***************************************************************************)
RETRYABLE == {429, 500, 502, 503, 504}

MaxAttempts == 6

ValueError == [k |-> "ValueError"]

Digits == <<"0", "1", "2", "3", "4", "5", "6", "7", "8", "9">>
DigitValue(c) == (CHOOSE v \in 1..10 : Digits[v] = c) - 1

\* str.strip() of the blanks around a text (a text is its sequence of characters)
RECURSIVE Strip(_)
Strip(text) ==
    IF text = <<>> THEN text
    ELSE IF Head(text) = " " THEN Strip(Tail(text))
    ELSE IF text[Len(text)] = " " THEN Strip(SubSeq(text, 1, Len(text) - 1))
    ELSE text

AllDigits(text) == \A j \in 1..Len(text) : \E v \in 1..10 : Digits[v] = text[j]

\* the value of a run of digits
RECURSIVE Decimal(_)
Decimal(text) ==
    IF text = <<>> THEN 0
    ELSE 10 * Decimal(SubSeq(text, 1, Len(text) - 1)) + DigitValue(text[Len(text)])

RECURSIVE Pow10(_)
Pow10(e) == IF e = 0 THEN 1 ELSE 10 * Pow10(e - 1)

\* the position of the first "." of a text, 0 when it has none
PointAt(text) ==
    IF \E j \in 1..Len(text) : text[j] = "."
    THEN CHOOSE j \in 1..Len(text) : text[j] = "." /\ \A h \in 1..(j - 1) : text[h] # "."
    ELSE 0

\* float() of an unsigned text: digits with at most one point and at least one
\* digit, or nan, inf, infinity (texts in lower case, without exponent)
Unsigned(text, sg) ==
    IF text = <<"n", "a", "n">> THEN NaN
    ELSE IF text \in {<<"i", "n", "f">>, <<"i", "n", "f", "i", "n", "i", "t", "y">>}
    THEN Inf(sg)
    ELSE LET p == PointAt(text)
             whole == IF p = 0 THEN text ELSE SubSeq(text, 1, p - 1)
             frac == IF p = 0 THEN <<>> ELSE SubSeq(text, p + 1, Len(text))
         IN  IF AllDigits(whole) /\ AllDigits(frac) /\ Len(whole) + Len(frac) > 0
             THEN Fin(sg, Decimal(whole \o frac), Pow10(Len(frac)))
             ELSE ValueError

\* float(ra): the number a text denotes, or ValueError
ParseFloat(text) ==
    LET body == Strip(text)
    IN  IF body = <<>> THEN ValueError
        ELSE IF Head(body) = "-" THEN Unsigned(Tail(body), -1)
        ELSE IF Head(body) = "+" THEN Unsigned(Tail(body), 1)
        ELSE Unsigned(body, 1)

\* Python's min(a, b): b when b < a, otherwise a (so a NaN in first place stays)
PyMin(a, b) == IF Lt(b, a) THEN b ELSE a

\* a header value
Str(text) == [k |-> "str", v |-> text]

\* sleep_s = float(ra) if ra else (2 ** i), and 2 ** i on ValueError
SleepS(ra, i) ==
    IF ra = None \/ ra = Str(<<>>) THEN Num(2 ^ i)
    ELSE IF ParseFloat(ra.v) = ValueError THEN Num(2 ^ i)
    ELSE ParseFloat(ra.v)

\* min(sleep_s + random.uniform(0, 0.5), 30)
SleepArg(ra, i, jitter) == PyMin(Add(SleepS(ra, i), jitter), Num(30))

\* time.sleep raises ValueError on a negative length and on NaN
SleepRaises(secs) == IsNaN(secs) \/ Lt(secs, Zero)

\* values of random.uniform(0, 0.5)
Jitters == {Zero, Fin(1, 1, 4), Fin(1, 1, 2)}

\* Retry-After headers: none, empty, seconds, an HTTP date, and numbers float()
\* accepts that are no delay
RetryAfters ==
    {None} \cup
    {Str(text) : text \in
        {<<>>, <<"0">>, <<"7">>, <<"4", "0">>, <<"1", ".", "5">>, <<" ", "3">>,
         <<"i", "n", "f">>, <<"-", "1">>, <<"n", "a", "n">>,
         <<"S", "u", "n", ",", " ", "0", "1", " ", "N", "o", "v">>}}

\* response texts: none, a JSON document, something else (all under 500 characters)
Texts == {"", "{\"results\": []}", "busy"}

\* the responses of the server: a 200 with or without a document, the other
\* statuses with or without a text, the retryable ones with every Retry-After
Responses ==
    {r \in [status_code : {200, 204, 404} \cup RETRYABLE, retry_after : RetryAfters, text : Texts] :
        /\ r.status_code = 200 => r.text # "busy"
        /\ r.status_code # 200 => r.text # "{\"results\": []}"
        /\ r.status_code \notin RETRYABLE => r.retry_after = None
        /\ r.status_code \in RETRYABLE /\ r.retry_after # None => r.text = "busy"}

\* r.json(): the document, or the decoder's exception
Json(r) ==
    IF r.text = "{\"results\": []}" THEN [k |-> "return", value |-> r.text]
    ELSE [k |-> "raise", error |-> "JSONDecodeError"]

\* r.raise_for_status() raises for the statuses 400..599
IsErrorStatus(status_code) == 400 <= status_code /\ status_code < 600

FetchInit ==
    /\ HandlerIdle
    /\ IngestIdle
    /\ fin = None
    /\ fout = None
    /\ gpc = "request"
    /\ attempts \in 0..MaxAttempts
    /\ attempt = 0
    /\ resp = None
    /\ last_status = None
    /\ last_body = None
    /\ returned = None
    /\ requests = 0
    /\ slept = None

\* for i in range(attempts): _pace(); r = SESSION.get(url, params=params, timeout=15)
\* (_pace returns at once with the default MIN_GAP_S of 0)
Request ==
    /\ gpc = "request"
    /\ attempt < attempts
    /\ \E r \in Responses : resp' = r
    /\ requests' = requests + 1
    /\ gpc' = "status"
    /\ UNCHANGED <<handler, ingest, fin, fout, attempts, attempt, last_status, last_body,
                   returned, slept>>

\* if r.status_code == 200: return r.json()
ReturnJson ==
    /\ gpc = "status"
    /\ resp.status_code = 200
    /\ returned' = Json(resp)
    /\ gpc' = "done"
    /\ UNCHANGED <<handler, ingest, fin, fout, attempts, attempt, resp, last_status, last_body,
                   requests, slept>>

\* last_body = r.text[:500] if r.text else None
LastBody(r) == IF r.text = "" THEN None ELSE r.text

\* a retryable status: time.sleep(min(sleep_s + random.uniform(0, 0.5), 30)); continue
Backoff ==
    /\ gpc = "status"
    /\ resp.status_code # 200
    /\ resp.status_code \in RETRYABLE
    /\ \E jitter \in Jitters :
            /\ ~SleepRaises(SleepArg(resp.retry_after, attempt, jitter))
            /\ slept' = SleepArg(resp.retry_after, attempt, jitter)
    /\ last_status' = resp.status_code
    /\ last_body' = LastBody(resp)
    /\ attempt' = attempt + 1
    /\ gpc' = "request"
    /\ UNCHANGED <<handler, ingest, fin, fout, attempts, resp, returned, requests>>

\* the same, when time.sleep rejects its argument: the ValueError is raised
\* outside the try and leaves get_json
BackoffRaises ==
    /\ gpc = "status"
    /\ resp.status_code # 200
    /\ resp.status_code \in RETRYABLE
    /\ \E jitter \in Jitters : SleepRaises(SleepArg(resp.retry_after, attempt, jitter))
    /\ last_status' = resp.status_code
    /\ last_body' = LastBody(resp)
    /\ returned' = [k |-> "raise", error |-> "ValueError"]
    /\ gpc' = "done"
    /\ UNCHANGED <<handler, ingest, fin, fout, attempts, attempt, resp, requests, slept>>

\* non-retryable: r.raise_for_status() raises for an error status
RaiseForStatus ==
    /\ gpc = "status"
    /\ resp.status_code # 200
    /\ resp.status_code \notin RETRYABLE
    /\ IsErrorStatus(resp.status_code)
    /\ last_status' = resp.status_code
    /\ last_body' = LastBody(resp)
    /\ returned' = [k |-> "raise", error |-> "HTTPError", status_code |-> resp.status_code]
    /\ gpc' = "done"
    /\ UNCHANGED <<handler, ingest, fin, fout, attempts, attempt, resp, requests, slept>>

\* non-retryable and no error status: r.raise_for_status() returns and the loop
\* goes on to its next round without sleeping
NextRound ==
    /\ gpc = "status"
    /\ resp.status_code # 200
    /\ resp.status_code \notin RETRYABLE
    /\ ~IsErrorStatus(resp.status_code)
    /\ last_status' = resp.status_code
    /\ last_body' = LastBody(resp)
    /\ attempt' = attempt + 1
    /\ gpc' = "request"
    /\ UNCHANGED <<handler, ingest, fin, fout, attempts, resp, returned, requests, slept>>

\* raise RuntimeError(f"{last_status} after {attempts} attempts: ...")
Exhausted ==
    /\ gpc = "request"
    /\ attempt >= attempts
    /\ returned' = [k |-> "raise", error |-> "RuntimeError", last_status |-> last_status,
                    last_body |-> last_body, attempts |-> attempts]
    /\ gpc' = "done"
    /\ UNCHANGED <<handler, ingest, fin, fout, attempts, attempt, resp, last_status, last_body,
                   requests, slept>>

FetchNext ==
    \/ Request
    \/ ReturnJson
    \/ Backoff
    \/ BackoffRaises
    \/ RaiseForStatus
    \/ NextRound
    \/ Exhausted

SpecFetch == FetchInit /\ [][FetchNext]_vars

(***************************************************************************)
(* Properties of get_json                                                  *)
(***************************************************************************)
\* the server's Retry-After value when present and parseable, otherwise 2^i
StatedDelay(r, i) ==
    IF r.retry_after # None /\ r.retry_after # Str(<<>>)
       /\ ParseFloat(r.retry_after.v) # ValueError
    THEN ParseFloat(r.retry_after.v)
    ELSE Num(2 ^ i)

\* secs is the stated delay, lengthened by the jitter of at most half a second
\* the code adds, and never more than 30 seconds
WaitsStatedDelay(secs, r, i) ==
    /\ secs # None
    /\ ~Gt(secs, Num(30))
    /\ \/ Eq(secs, Num(30)) /\ Ge(Add(StatedDelay(r, i), Fin(1, 1, 2)), Num(30))
       \/ Ge(secs, StatedDelay(r, i)) /\ ~Gt(secs, Add(StatedDelay(r, i), Fin(1, 1, 2)))

\* C12 (as stated): get_json issues at most attempts requests; at the first
\* 200 it ends with the response's document and no further request; after a
\* retryable status it waits the Retry-After value when present and parseable,
\* otherwise 2^i seconds, never more than 30, and goes on to the next attempt;
\* a non-retryable error status is raised at once with no further request; and
\* when all attempts ended in retryable statuses it raises instead of returning.
GetJsonWaitsAndRetries ==
    /\ [](requests <= attempts)
    /\ [][gpc = "status" /\ resp.status_code = 200
            => gpc' = "done" /\ returned' = Json(resp) /\ requests' = requests]_vars
    /\ [][gpc = "status" /\ resp.status_code \in RETRYABLE
            => /\ gpc' = "request"
               /\ attempt' = attempt + 1
               /\ requests' = requests
               /\ WaitsStatedDelay(slept', resp, attempt)]_vars
    /\ [][gpc = "status" /\ resp.status_code \notin RETRYABLE \cup {200}
          /\ IsErrorStatus(resp.status_code)
            => /\ gpc' = "done"
               /\ returned' = [k |-> "raise", error |-> "HTTPError",
                               status_code |-> resp.status_code]
               /\ requests' = requests]_vars
    /\ [][gpc = "done" => UNCHANGED vars]_vars
    /\ [](gpc = "done" /\ requests = attempts /\ attempts > 0
          /\ resp.status_code \in RETRYABLE
            => returned.k = "raise")

\* C12, what the code does: a retryable response carries a Retry-After that
\* float() accepts and time.sleep rejects (a negative number, NaN); the
\* ValueError of time.sleep leaves get_json before the attempts are used up,
\* with no wait and no retry
SleepRaisedOnRetryAfter ==
    /\ gpc = "done"
    /\ returned = [k |-> "raise", error |-> "ValueError"]
    /\ attempts = 4
    /\ requests = 2
    /\ resp.status_code = 503
    /\ resp.retry_after = Str(<<"-", "1">>)
    /\ slept = Num(1)

(***************************************************************************)
(* The ingest service's lambda_handler (src/services/ingest/handler.py).   *)
(* A date is its proleptic ordinal; date_iso stands for its ISO text, which *)
(* names the same day.                                                     *)
(***************************************************************************)
MaxRuns == 3
MaxDays == 5

\* the days the service is invoked on: a Friday up to the Tuesday after it
IngestDays == (FirstDay + 2)..(FirstDay + 1 + MaxDays)

\* previous_trading_day(): Monday -> Friday, Sunday -> Friday, Saturday ->
\* Friday, Tuesday..Friday -> the day before
previous_trading_day(today_ny) ==
    LET wd == DayOfWeek(today_ny)
    IN  IF wd = 0 THEN today_ny - 3
        ELSE IF wd = 6 THEN today_ny - 2
        ELSE IF wd = 5 THEN today_ny - 1
        ELSE today_ny - 1

\* one element of the grouped response's "results"
Raw(T, o, c, v, h, l, vw) == [T |-> T, o |-> o, c |-> c, v |-> v, h |-> h, l |-> l, vw |-> vw]

\* a bar with only T, o, c and v
Bar(T, o, c) == Raw(T, Num(o), Num(c), Num(1000), None, None, None)

\* what the grouped endpoint can answer for a day: two watchlist movers of the
\* same size and a foreign ticker; a mover with all fields and no volume; a
\* change that rounds; a foreign ticker only; a watchlist ticker that opened
\* at zero; elements without ticker or open; nothing
GroupedResults ==
    {<<Bar("NVDA", 100, 110), Bar("AAPL", 50, 45), Bar("IBM", 10, 20)>>,
     <<Bar("NVDA", 100, 101), Raw("TSLA", Num(10), Num(13), None, Num(14), Num(9), Num(12))>>,
     <<Bar("AAPL", 3, 4)>>,
     <<Bar("IBM", 10, 20)>>,
     <<Bar("MSFT", 0, 5)>>,
     <<Raw("", Num(1), Num(2), None, None, None, None),
       Raw("AAPL", None, Num(2), None, None, None, None)>>,
     <<>>}

\* the rows fetch_grouped_daily builds from the results
RECURSIVE GroupedRows(_)
GroupedRows(results) ==
    IF results = <<>> THEN <<>>
    ELSE LET r == Head(results)
         IN  IF r.T = "" \/ r.o = None \/ r.c = None
             THEN GroupedRows(Tail(results))
             ELSE <<[ticker |-> r.T, open |-> r.o, close |-> r.c,
                     high |-> r.h, low |-> r.l, vwap |-> r.vw,
                     volume |-> IF r.v # None THEN r.v ELSE Zero]>>
                  \o GroupedRows(Tail(results))

\* [x for x in rows if x["ticker"] in WATCHLIST]
WatchlistRows(rows) ==
    SelectSeq(rows, LAMBDA x : \E j \in 1..Len(WATCHLIST) : WATCHLIST[j] = x.ticker)

\* abs() of a float
FAbs(x) == IF x.k = "nan" THEN x ELSE [x EXCEPT !.s = 1]

\* the loop of pick_biggest_mover over wl, from best (None at first)
RECURSIVE BestOf(_, _)
BestOf(wl, best) ==
    IF wl = <<>> THEN best
    ELSE LET x == Head(wl)
             pct == Mul(Div(Sub(x.close, x.open), x.open), Num(100))
         IN  IF Eq(x.open, Zero) THEN BestOf(Tail(wl), best)
             ELSE IF best = None \/ Gt(FAbs(pct), best.abs_change)
             THEN BestOf(Tail(wl), [ticker |-> x.ticker, open |-> x.open, close |-> x.close,
                                    percent_change |-> pct, abs_change |-> FAbs(pct)])
             ELSE BestOf(Tail(wl), best)

\* Decimal(str(round(x, 6))): x to six decimal places, ties to even
Round6(x) ==
    IF x.k # "fin" THEN x
    ELSE LET scaled == x.n * 1000000
             q == scaled \div x.d
             twice == 2 * (scaled % x.d)
             up == twice > x.d \/ (twice = x.d /\ q % 2 = 1)
         IN  Fin(x.s, IF up THEN q + 1 ELSE q, 1000000)

\* the item write_winner_to_ddb builds
WinnerItem(date, w) ==
    [date |-> date, ticker |-> w.ticker,
     percent_change |-> Round6(w.percent_change), close |-> Round6(w.close)]

\* the item write_watchlist_ohlcv builds for a row (absent optional fields are
\* left out of the item)
WatchlistItem(date, r) ==
    [ticker |-> r.ticker, date |-> date, open |-> Round6(r.open), close |-> Round6(r.close),
     volume |-> Round6(r.volume),
     high |-> IF r.high # None THEN Round6(r.high) ELSE None,
     low |-> IF r.low # None THEN Round6(r.low) ELSE None,
     vwap |-> IF r.vwap # None THEN Round6(r.vwap) ELSE None]

WatchlistItems(date, rows) ==
    {WatchlistItem(date, WatchlistRows(rows)[j]) : j \in 1..Len(WatchlistRows(rows))}

\* put_item without a condition: the item replaces the one stored under its key
BatchPut(tbl, items) ==
    {x \in tbl : ~\E y \in items : y.ticker = x.ticker /\ y.date = x.date} \cup items

\* a put_item that replaces the record stored for the date
PutOverwriting(tbl, item) ==
    [table |-> {x \in tbl : x.date # item.date} \cup {item}, error |-> None]

\* table.put_item(Item=item, ConditionExpression="attribute_not_exists(#d)") on
\* the table keyed by date: refused when a record is stored under the item's
\* key, stored otherwise
PutIfAbsent(tbl, item) ==
    IF \E x \in tbl : x.date = item.date
    THEN [table |-> tbl, error |-> "ConditionalCheckFailedException"]
    ELSE [table |-> tbl \cup {item}, error |-> None]

\* what a storage call can fail with whatever is stored
StorageErrors == {"ProvisionedThroughputExceededException", "AccessDeniedException"}

Raised(error) == [k |-> "raise", error |-> error]

others == <<handler, fetch, fin, fout>>

IngestInit ==
    /\ HandlerIdle
    /\ FetchIdle
    /\ IngestIdle
    /\ fin = None
    /\ fout = None

\* lambda_handler(event, context) on some day not before the last one:
\* date_iso = previous_trading_day().isoformat()
Invoke ==
    /\ ipc = "idle"
    /\ runs < MaxRuns
    /\ \E day \in IngestDays :
            /\ day >= today
            /\ today' = day
            /\ date_iso' = previous_trading_day(day)
    /\ runs' = runs + 1
    /\ grouped_rows' = <<>>
    /\ winner' = None
    /\ saved_item' = None
    /\ result' = None
    /\ ipc' = "fetch"
    /\ UNCHANGED <<others, table, watchlist_table>>

\* rows = fetch_grouped_daily(date_iso), with rows
FetchRows ==
    /\ ipc = "fetch"
    /\ \E results \in GroupedResults :
            /\ GroupedRows(results) # <<>>
            /\ grouped_rows' = GroupedRows(results)
    /\ ipc' = "write_watchlist"
    /\ UNCHANGED <<others, table, watchlist_table, today, runs, date_iso, winner,
                   saved_item, result>>

\* if not rows: raise RuntimeError(f"No grouped daily data returned for {date_iso}.")
NoRows ==
    /\ ipc = "fetch"
    /\ \E results \in GroupedResults : GroupedRows(results) = <<>>
    /\ result' = Raised("RuntimeError: No grouped daily data")
    /\ ipc' = "idle"
    /\ UNCHANGED <<others, table, watchlist_table, today, runs, date_iso, grouped_rows,
                   winner, saved_item>>

\* get_json raises inside fetch_grouped_daily
FetchRaises ==
    /\ ipc = "fetch"
    /\ \E error \in {"HTTPError", "RuntimeError", "ValueError", "JSONDecodeError"} :
            result' = Raised(error)
    /\ ipc' = "idle"
    /\ UNCHANGED <<others, table, watchlist_table, today, runs, date_iso, grouped_rows,
                   winner, saved_item>>

\* write_watchlist_ohlcv(date_iso, rows): one item per watchlist row
WriteWatchlist ==
    /\ ipc = "write_watchlist"
    /\ WatchlistRows(grouped_rows) # <<>>
    /\ watchlist_table' = BatchPut(watchlist_table, WatchlistItems(date_iso, grouped_rows))
    /\ ipc' = "pick"
    /\ UNCHANGED <<others, table, today, runs, date_iso, grouped_rows, winner, saved_item,
                   result>>

\* if not wl: raise RuntimeError("No watchlist tickers found in grouped response.")
NoWatchlistRows ==
    /\ ipc = "write_watchlist"
    /\ WatchlistRows(grouped_rows) = <<>>
    /\ result' = Raised("RuntimeError: No watchlist tickers")
    /\ ipc' = "idle"
    /\ UNCHANGED <<others, table, watchlist_table, today, runs, date_iso, grouped_rows,
                   winner, saved_item>>

\* the batch writer fails: some of the items may have been stored
WriteWatchlistFails ==
    /\ ipc = "write_watchlist"
    /\ WatchlistRows(grouped_rows) # <<>>
    /\ \E stored \in SUBSET WatchlistItems(date_iso, grouped_rows) :
            /\ stored # WatchlistItems(date_iso, grouped_rows)
            /\ watchlist_table' = BatchPut(watchlist_table, stored)
    /\ \E error \in StorageErrors : result' = Raised(error)
    /\ ipc' = "idle"
    /\ UNCHANGED <<others, table, today, runs, date_iso, grouped_rows, winner, saved_item>>

\* winner = pick_biggest_mover(rows)
Pick ==
    /\ ipc = "pick"
    /\ BestOf(WatchlistRows(grouped_rows), None) # None
    /\ winner' = BestOf(WatchlistRows(grouped_rows), None)
    /\ ipc' = "write_winner"
    /\ UNCHANGED <<others, table, watchlist_table, today, runs, date_iso, grouped_rows,
                   saved_item, result>>

\* raise RuntimeError("Could not compute winner (open prices were zero or missing).")
NoWinner ==
    /\ ipc = "pick"
    /\ BestOf(WatchlistRows(grouped_rows), None) = None
    /\ result' = Raised("RuntimeError: Could not compute winner")
    /\ ipc' = "idle"
    /\ UNCHANGED <<others, table, watchlist_table, today, runs, date_iso, grouped_rows,
                   winner, saved_item>>

\* saved_item = write_winner_to_ddb(date_iso, winner): the item is stored, or
\* the put is refused with ConditionalCheckFailedException, which is caught;
\* the item built is returned either way
WriteWinner ==
    /\ ipc = "write_winner"
    /\ table' = PutIfAbsent(table, WinnerItem(date_iso, winner)).table
    /\ saved_item' = WinnerItem(date_iso, winner)
    /\ ipc' = "return"
    /\ UNCHANGED <<others, watchlist_table, today, runs, date_iso, grouped_rows, winner,
                   result>>

\* put_item fails with another error: raise
WriteWinnerFails ==
    /\ ipc = "write_winner"
    /\ \E error \in StorageErrors : result' = Raised(error)
    /\ ipc' = "idle"
    /\ UNCHANGED <<others, table, watchlist_table, today, runs, date_iso, grouped_rows,
                   winner, saved_item>>

\* return {"ok": True, "date": date_iso, "winner": {...}, "ddb_item": saved_item}
Return ==
    /\ ipc = "return"
    /\ result' = [k |-> "return", ok |-> TRUE, date |-> date_iso,
                  winner |-> [ticker |-> winner.ticker,
                              percent_change |-> saved_item.percent_change,
                              close |-> saved_item.close],
                  ddb_item |-> saved_item]
    /\ ipc' = "idle"
    /\ UNCHANGED <<others, table, watchlist_table, today, runs, date_iso, grouped_rows,
                   winner, saved_item>>

IngestNext ==
    \/ Invoke
    \/ FetchRows
    \/ NoRows
    \/ FetchRaises
    \/ WriteWatchlist
    \/ NoWatchlistRows
    \/ WriteWatchlistFails
    \/ Pick
    \/ NoWinner
    \/ WriteWinner
    \/ WriteWinnerFails
    \/ Return

SpecIngest == IngestInit /\ [][IngestNext]_vars

(***************************************************************************)
(* Properties of the winner table                                          *)
(***************************************************************************)
Stored(date) == \E x \in table : x.date = date

\* C13: the winner table never holds two records for one date, and a stored
\* record is never changed or removed, so each date keeps the first record
\* written for it; a write_winner_to_ddb for a date that has a record leaves
\* the table as it is and returns, the handler then answering ok; and when
\* put_item fails with any other error the invocation ends raising it.
WinnerTableKeepsFirst ==
    /\ [](\A x, y \in table : x.date = y.date => x = y)
    /\ [][\A x \in table : x \in table']_vars
    /\ [][table' # table
            => /\ ipc = "write_winner"
               /\ ~Stored(date_iso)
               /\ table' = table \cup {WinnerItem(date_iso, winner)}]_vars
    /\ [][ipc = "write_winner" /\ Stored(date_iso)
            => /\ table' = table
               /\ \/ ipc' = "return" /\ result' = None
                  \/ ipc' = "idle" /\ result'.k = "raise" /\ result'.error \in StorageErrors]_vars
    /\ [][ipc = "write_winner" /\ ipc' = "idle"
            => result'.k = "raise" /\ result'.error \in StorageErrors /\ table' = table]_vars
    /\ [][ipc = "return" => result'.k = "return" /\ result'.ok /\ table' = table]_vars

\* C13 witness: a run for a date whose record names NVDA picked TSLA, its
\* write was refused and it returned ok; the table still holds the NVDA record
\* and nothing else for that date
KeptFirstWinner ==
    /\ ipc = "idle"
    /\ runs >= 2
    /\ result # None
    /\ result.k = "return"
    /\ result.ddb_item.ticker = "TSLA"
    /\ \E x \in table : x.date = date_iso /\ x.ticker = "NVDA"
    /\ \A x \in table : x.date = date_iso => x.ticker = "NVDA"

====
